---- MODULE Spec2Model ----
(***************************************************************************)
(* Post-processing layer of the NLP assistant: entity highlighting         *)
(* (ner.py), context snippets (question_answering.py), entity statistics   *)
(* (ner.py) and the try/except adapters around the model pipelines.        *)
(*                                                                         *)
(* Python strings are modelled as sequences of one-character strings, so   *)
(* that slicing, splicing and concatenation are computed position by       *)
(* position.  Offsets are 0-based and half-open as in Python.              *)
(***************************************************************************)
EXTENDS Integers, Sequences, FiniteSets, TLC

\* ------------------------------------------------------------------ bounds
MaxTextLen == 4
MaxSpans == 2
MaxCtxLen == 4
MaxWindow == 5
OffsetSlack == 2
MaxTexts == 2
MaxEntsPerText == 2
MaxTopK == 2
MaxSequences == 2
MaxReviews == 2
MaxDocs == 3

\* ------------------------------------------------------------- PythonText
Min(a, b) == IF a < b THEN a ELSE b
Max(a, b) == IF a > b THEN a ELSE b

\* Python's normalisation of one slice index against a sequence of length n:
\* a negative index counts from the end, then the index is clipped to 0..n.
SliceIndex(i, n) == IF i < 0 THEN Max(i + n, 0) ELSE Min(i, n)

\* s[lo:hi]
PySlice(s, lo, hi) ==
    LET l == SliceIndex(lo, Len(s))
        h == SliceIndex(hi, Len(s))
    IN  IF l >= h THEN <<>> ELSE SubSeq(s, l + 1, h)

\* s[:hi] and s[lo:]
PyPrefix(s, hi) == PySlice(s, 0, hi)
PySuffix(s, lo) == PySlice(s, lo, Len(s))

\* Python's None.
NoneValue == [none |-> TRUE]

\* dict.get(key, default)
Get(rec, key, default) == IF key \in DOMAIN rec THEN rec[key] ELSE default

\* The characters of the strings the code handles as literals or labels.
Chars(str) ==
    CASE str = "PER" -> <<"P", "E", "R">>
      [] str = "ORG" -> <<"O", "R", "G">>
      [] str = "LOC" -> <<"L", "O", "C">>
      [] str = "MISC" -> <<"M", "I", "S", "C">>
      [] str = "PERSON" -> <<"P", "E", "R", "S", "O", "N">>
      [] str = "..." -> <<".", ".", ".">>
      [] OTHER -> <<str>>

\* round(score * 100, 2): scores are carried in units of 1e-5, confidences
\* in units of 0.01; ties go to the even neighbour as Python's round does.
Round2(score) ==
    LET q == score \div 10
        r == score % 10
    IN  IF r > 5 \/ (r = 5 /\ q % 2 = 1) THEN q + 1 ELSE q

\* ---------------------------------------------------------- ner.py inputs
Letters == <<"a", "b", "c", "d", "e", "f", "g", "h">>

\* Input texts: one text per length, all characters distinct, so that every
\* position of the output can be traced to the position it came from.
Texts == {SubSeq(Letters, 1, n) : n \in 0..MaxTextLen}

HighlightGroups == {"PER", "ORG"}
NerScores == {99987}

\* The grouped entities the token-classification pipeline can report for a
\* text: in-bounds offsets with start < end; 'word' is the source substring
\* or the tokenizer's own rendering of it.
RawEntities(text) ==
    UNION {{[entity_group |-> g, word |-> w, score |-> sc,
             start |-> p[1], end |-> p[2]] :
                g \in HighlightGroups, sc \in NerScores,
                w \in {PySlice(text, p[1], p[2]), <<"w">>}} :
           p \in {q \in (0..Len(text)) \X (0..Len(text)) : q[1] < q[2]}}

\* Outcome of self.ner_pipeline(text): a sequence of grouped entities in any
\* order (overlap is not excluded by the code), or an exception.
\* The same, computed once per input text.
RawEntitiesOfText == [text \in Texts |-> RawEntities(text)]

\* How a call ends: it returns a value, or it raises an Exception whose
\* str() is the message.
Returned(v) == [raised |-> FALSE, value |-> v]
Raised(m) == [raised |-> TRUE, message |-> m]

ExceptionMessages == {"CUDA out of memory", "index out of range"}

\* ------------------------------------------------------ ner.py: recognize
FormatEntity(entity) ==
    [text |-> entity.word, type |-> entity.entity_group,
     confidence |-> Round2(entity.score),
     start |-> entity.start, end |-> entity.end]

\* entity_types: for every group met, the words of that group in encounter order.
EntityTypesOf(entities) ==
    [g \in {entities[k].entity_group : k \in DOMAIN entities} |->
        LET ofGroup == SelectSeq(entities, LAMBDA x : x.entity_group = g)
        IN  [k \in DOMAIN ofGroup |-> ofGroup[k].word]]

\* `except Exception as e`: does the handler take the outcome of the try body?
CaughtNever(body) == FALSE

Caught(body) == body.raised

\* Lines 40-70: the try body; an exception of the pipeline leaves it at once.
RecognizeTry(text, out) ==
    IF out.raised THEN out
    ELSE Returned(
           [entities |-> [k \in DOMAIN out.value |-> FormatEntity(out.value[k])],
            entity_types |-> EntityTypesOf(out.value),
            total_entities |-> Len(out.value),
            text |-> text])

\* recognize(text) as the caller sees it end.
RecognizeCall(text, out) ==
    LET body == RecognizeTry(text, out)
    IN  IF Caught(body)
        THEN Returned([error |-> body.message, entities |-> <<>>,
                       entity_types |-> <<>>, total_entities |-> 0])
        ELSE body

\* The record recognize(text) returns.
Recognize(text, out) == RecognizeCall(text, out).value

\* --------------------------------------------- ner.py: highlight_entities
\* sorted(entities, key=lambda x: x['start'], reverse=True): stable, so
\* entities with equal start keep their input order.
SortedByStartUnsorted(entities) == entities

RECURSIVE SortedByStartAsc(_)
SortedByStartAsc(entities) ==
    IF entities = <<>> THEN <<>>
    ELSE LET e == Head(entities)
             rest == SortedByStartAsc(Tail(entities))
         IN  SelectSeq(rest, LAMBDA x : x.start < e.start)
             \o <<e>>
             \o SelectSeq(rest, LAMBDA x : x.start >= e.start)

RECURSIVE SortedByStartDesc(_)

SortedByStartDesc(entities) ==
    IF entities = <<>> THEN <<>>
    ELSE LET e == Head(entities)
             rest == SortedByStartDesc(Tail(entities))
         IN  SelectSeq(rest, LAMBDA x : x.start > e.start)
             \o <<e>>
             \o SelectSeq(rest, LAMBDA x : x.start <= e.start)

\* f"[{entity_text}]({entity_type})"
MarkedText(entity) ==
    <<"[">> \o entity.text \o <<"]", "(">> \o Chars(entity.type) \o <<")">>

\* highlighted_text[:start] + marked_text + highlighted_text[end:]
SpliceFromStart(highlighted_text, entity) ==
    PyPrefix(highlighted_text, entity.start)
    \o MarkedText(entity)
    \o PySuffix(highlighted_text, entity.start)

Splice(highlighted_text, entity) ==
    PyPrefix(highlighted_text, entity.start)
    \o MarkedText(entity)
    \o PySuffix(highlighted_text, entity.end)

\* `if not entities: return text`
UnchangedTextFromResult(text, result) == Get(result, "text", <<>>)

UnchangedText(text, result) == text

\* The whole loop of highlight_entities over an already sorted sequence.
RECURSIVE SpliceAll(_, _)
SpliceAll(highlighted_text, entities_sorted) ==
    IF entities_sorted = <<>> THEN highlighted_text
    ELSE SpliceAll(Splice(highlighted_text, Head(entities_sorted)),
                   Tail(entities_sorted))

\* highlight_entities as a function of the text and the pipeline's outcome.
HighlightEntities(text, out) ==
    LET result == Recognize(text, out)
        entities == Get(result, "entities", <<>>)
    IN  IF entities = <<>> THEN UnchangedText(text, result)
        ELSE SpliceAll(text, SortedByStartDesc(entities))

\* ------------------------------------------ ner.py: get_entity_statistics
\* The keys of all_entity_types.
EntityUniverse == {"PER", "ORG", "LOC", "MISC"}

\* Grouped entities the pipeline reports in the statistics runs: the same
\* name in two spellings, a second group, and a group outside the universe.
\* Words are whole strings here: the statistics never look inside them.
StatEntities ==
    {[entity_group |-> "PER", word |-> "Tim Cook", score |-> 99987, start |-> 0, end |-> 8],
     [entity_group |-> "PER", word |-> "tim cook", score |-> 99987, start |-> 0, end |-> 8],
     [entity_group |-> "ORG", word |-> "Apple", score |-> 99987, start |-> 9, end |-> 14],
     [entity_group |-> "PERSON", word |-> "Tim Cook", score |-> 99987, start |-> 0, end |-> 8]}

\* `total_entities += result.get('total_entities', 0)`
TotalAddKnownTypes(total_entities, result) ==
    total_entities
    + Len(SelectSeq(Get(result, "entities", <<>>),
                    LAMBDA e : e.type \in EntityUniverse))

TotalAdd(total_entities, result) ==
    total_entities + Get(result, "total_entities", 0)

\* Lines 151-153: extend the lists of the known types.
Accumulate(all_entity_types, result) ==
    LET entity_types == Get(result, "entity_types", <<>>)
    IN  [etype \in DOMAIN all_entity_types |->
            IF etype \in DOMAIN entity_types
            THEN all_entity_types[etype] \o entity_types[etype]
            ELSE all_entity_types[etype]]

\* list(set(words)); the order of the resulting list is not modelled.
Dedupe(words) == {words[k] : k \in DOMAIN words}

\* len(v) for a deduplicated list v.
EntityCountMentions(words) == Len(words)

EntityCount(words) == Cardinality(Dedupe(words))

\* Lines 156-163.
StatisticsResult(all_entity_types, total_entities) ==
    [entity_counts |-> [k \in DOMAIN all_entity_types |-> EntityCount(all_entity_types[k])],
     unique_entities |-> [k \in DOMAIN all_entity_types |-> Dedupe(all_entity_types[k])],
     total_entities |-> total_entities]

\* ------------------------------ question_answering.py: _get_context_snippet
\* The 30-character context of the specification's worked examples.
CtxExample ==
    <<"0", "1", "2", "3", "4", "5", "6", "7", "8", "9",
      "a", "b", "c", "d", "e", "f", "g", "h", "i", "j",
      "k", "l", "m", "n", "o", "p", "q", "r", "s", "t">>

Contexts == {SubSeq(CtxExample, 1, n) : n \in 0..MaxCtxLen} \cup {CtxExample}

\* window: int = 50
DefaultWindow == 50

Windows == (0..MaxWindow) \cup {DefaultWindow}

\* start and end as the caller may pass them: any integers, here up to
\* OffsetSlack positions outside the context on either side.
Offsets(context) == (0 - OffsetSlack)..(Len(context) + OffsetSlack)

\* snippet_start = max(0, start - window)
SnippetStartUnclamped(start, window) == start - window

SnippetStart(start, window) == Max(0, start - window)

\* snippet_end = min(len(context), end + window)
SnippetEndBeforeWindow(context, end, window) == Min(Len(context), end - window)

SnippetEnd(context, end, window) == Min(Len(context), end + window)

\* `if snippet_start > 0`
LeadingMarkerFromZero(snippet_start) == snippet_start >= 0

LeadingMarker(snippet_start) == snippet_start > 0

\* `if snippet_end < len(context)`
TrailingMarker(context, snippet_end) == snippet_end < Len(context)

\* The locals and the returned string of _get_context_snippet.
GetContextSnippet(context, start, end, window) ==
    LET snippet_start == SnippetStart(start, window)
        snippet_end == SnippetEnd(context, end, window)
        leading == LeadingMarker(snippet_start)
        trailing == TrailingMarker(context, snippet_end)
    IN  [snippet_start |-> snippet_start,
         snippet_end |-> snippet_end,
         leading |-> leading,
         trailing |-> trailing,
         snippet |-> (IF leading THEN Chars("...") ELSE <<>>)
                     \o PySlice(context, snippet_start, snippet_end)
                     \o (IF trailing THEN Chars("...") ELSE <<>>)]

\* ---------------------------- question_answering.py: answer (top_k == 1)
\* What the question-answering pipeline reports for a context: an answer
\* span inside the context with its score.
QaScores == {0, 12344, 99987}

QaCandidates(context) ==
    {[answer |-> PySlice(context, p[1], p[2]), score |-> sc,
      start |-> p[1], end |-> p[2]] :
        p \in {q \in (0..Len(context)) \X (0..Len(context)) : q[1] <= q[2]},
        sc \in QaScores}

\* Lines 64-71: one record per candidate, in the order received.
FormatCandidate(res) ==
    [answer |-> res.answer, confidence |-> Round2(res.score),
     start |-> res.start, end |-> res.end]

FormatAnswersAboveZero(result) ==
    SelectSeq([k \in DOMAIN result |-> FormatCandidate(result[k])],
              LAMBDA a : a.confidence > 0)

FormatAnswers(result) == [k \in DOMAIN result |-> FormatCandidate(result[k])]

\* Lines 40-77: the try body.
AnswerTry(question, context, top_k, out) ==
    IF out.raised THEN out
    ELSE IF top_k = 1
    THEN Returned(
           [question |-> question,
            answer |-> out.value.answer,
            confidence |-> Round2(out.value.score),
            start |-> out.value.start,
            end |-> out.value.end,
            context_snippet |->
                GetContextSnippet(context, out.value.start, out.value.end,
                                  DefaultWindow).snippet])
    ELSE LET answers == FormatAnswers(out.value)
         IN  Returned(
               [question |-> question,
                answers |-> answers,
                top_answer |-> IF answers # <<>> THEN answers[1]
                               ELSE NoneValue])

\* answer(question, context, top_k) as the caller sees it end.  The answer
\* text of the error record is the literal of line 83 ("cannot answer").
AnswerCall(question, context, top_k, out) ==
    LET body == AnswerTry(question, context, top_k, out)
    IN  IF Caught(body)
        THEN Returned([error |-> body.message, question |-> question,
                       answer |-> "wufa huida", confidence |-> 0])
        ELSE body

\* ------------------------- question_answering.py: multi_document_qa
\* `documents[best_doc_idx][:200]`
PreviewChars == 200

\* Documents: a short one, one of exactly PreviewChars characters and one
\* that is one character longer.
DocShort == <<"a", "b">>
DocExact == [k \in 1..PreviewChars |-> "z"]
DocLong == [k \in 1..(PreviewChars + 1) |-> IF k <= PreviewChars THEN "x" ELSE "y"]
Docs == {DocShort, DocExact, DocLong}

\* Scores the pipeline reports for a document; 4 is a positive score whose
\* confidence rounds to 0.0, 40000 and 90000 give 40.0 and 90.0.
MdScores == {0, 4, 40000, 90000}

MdCandidates(doc) ==
    {[answer |-> PySlice(doc, 0, 1), score |-> sc, start |-> 0, end |-> 1] :
        sc \in MdScores}

\* Line 147: `score = result.get('confidence', 0)`
ScoreOf(result) == Get(result, "confidence", 0)

\* Line 149: `if score > best_score`
BetterOrEqual(score, best_score) == score >= best_score

BetterThanNothing(score, best_score) == score > 0

Better(score, best_score) == score > best_score

\* Line 145: does the for loop have another document?  idx is 0-based.
MoreDocumentsUntilFound(idx, documents, best_score) ==
    idx < Len(documents) /\ best_score = 0

MoreDocuments(idx, documents, best_score) == idx < Len(documents)

\* Line 156: `documents[best_doc_idx][:200] + "..."`
PreviewOfFirst(documents, best_doc_idx) ==
    PyPrefix(documents[1], PreviewChars) \o Chars("...")

Preview(documents, best_doc_idx) ==
    PyPrefix(documents[best_doc_idx + 1], PreviewChars) \o Chars("...")

\* Lines 155-156: the two keys added to the winning record.
Augment(best_answer, best_doc_idx, documents) ==
    [key \in DOMAIN best_answer \cup {"source_document_index", "source_document"} |->
        CASE key = "source_document_index" -> best_doc_idx
          [] key = "source_document" -> Preview(documents, best_doc_idx)
          [] OTHER -> best_answer[key]]

\* Lines 158-162: the record returned when no answer was kept; the answer
\* is the literal of line 160 ("no answer found in the documents").
NotFoundWithSource(question) ==
    [question |-> question, answer |-> "wufa zai wendang zhong zhaodao daan",
     confidence |-> 0, source_document_index |-> -1]

NotFound(question) ==
    [question |-> question, answer |-> "wufa zai wendang zhong zhaodao daan",
     confidence |-> 0]

\* Lines 154-162.
MultiDocumentResult(question, documents, best_answer, best_doc_idx) ==
    IF best_answer # NoneValue
    THEN Augment(best_answer, best_doc_idx, documents)
    ELSE NotFound(question)

\* ------------------------------------------ sentiment_analysis.py: analyze
\* Labels a sentiment pipeline may report, and the display labels of
\* sentiment_map: zhengmian (positive), fumian (negative), zhongli (neutral).
PipelineLabels == {"POSITIVE", "NEGATIVE", "NEUTRAL", "LABEL_0", "LABEL_1", "LABEL_2"}
SentimentScores == {12344, 99987}

\* sentiment_map.get(label, label)
SentimentMap(label) ==
    CASE label = "POSITIVE" -> "zhengmian"
      [] label = "NEGATIVE" -> "fumian"
      [] label = "NEUTRAL" -> "zhongli"
      [] label = "LABEL_0" -> "fumian"
      [] label = "LABEL_1" -> "zhengmian"
      [] OTHER -> label

\* Line 52: which pipeline analyze calls.
PipelineFor(language, chinese_pipeline) ==
    IF language = "zh" /\ chinese_pipeline THEN "chinese_pipeline"
    ELSE "sentiment_pipeline"

\* Lines 51-75: the try body; out.value is the list the pipeline returned.
AnalyzeTry(text, language, out) ==
    IF out.raised THEN out
    ELSE LET result == out.value[1]
         IN  Returned([sentiment |-> SentimentMap(result.label),
                       confidence |-> Round2(result.score),
                       raw_label |-> result.label,
                       raw_score |-> result.score])

\* analyze(text, language) as the caller sees it end; the sentiment of the
\* error record is the literal of line 79 ("unknown").
AnalyzeCall(text, language, out) ==
    LET body == AnalyzeTry(text, language, out)
    IN  IF Caught(body)
        THEN Returned([error |-> body.message, sentiment |-> "weizhi",
                       confidence |-> 0])
        ELSE body

\* -------------------------- sentiment_analysis.py: get_sentiment_distribution
\* The keys of sentiment_counts (lines 112-116).
SentimentLabels == {"zhengmian", "fumian", "zhongli"}

\* Lines 121-123: count the result under its label if the label is a key.
CountSentiment(sentiment_counts, result) ==
    LET sentiment == Get(result, "sentiment", "weizhi")
    IN  IF sentiment \in DOMAIN sentiment_counts
        THEN [sentiment_counts EXCEPT ![sentiment] = @ + 1]
        ELSE sentiment_counts

\* Line 124: `total_confidence += result.get('confidence', 0)`
ConfidenceAddIfCounted(total_confidence, result) ==
    IF Get(result, "sentiment", "weizhi") \in SentimentLabels
    THEN total_confidence + Get(result, "confidence", 0)
    ELSE total_confidence

ConfidenceAdd(total_confidence, result) ==
    total_confidence + Get(result, "confidence", 0)

\* round(a / n, 2) with a in hundredths: the nearest hundredth, ties to the
\* even neighbour; dividing by zero raises.
DivideRound2(a, n) ==
    IF n = 0 THEN Raised("division by zero")
    ELSE LET q == a \div n
             r == a % n
         IN  Returned(IF 2 * r > n \/ (2 * r = n /\ q % 2 = 1) THEN q + 1 ELSE q)

\* `... if texts else 0`: is the list of texts non-empty?
TruthyAlways(n) == TRUE

Truthy(n) == n > 0

\* Line 129.
AverageConfidence(total_confidence, n) ==
    IF Truthy(n) THEN DivideRound2(total_confidence, n) ELSE Returned(0)

\* Lines 126-130: how get_sentiment_distribution ends.
DistributionResult(sentiment_counts, n, total_confidence) ==
    LET average == AverageConfidence(total_confidence, n)
    IN  IF average.raised THEN average
        ELSE Returned([distribution |-> sentiment_counts,
                       total |-> n,
                       average_confidence |-> average.value])

\* ------------------------------------- text_summarization.py: summarize
\* `if len(text.split()) < 50`
ShortTextWords == 50

\* A text is carried as the list of its whitespace-separated words, which
\* is what text.split() yields.
WordsOf(n) == [k \in 1..n |-> "w"]

SummaryInputs == {WordsOf(n) : n \in {0, 1, ShortTextWords - 1, ShortTextWords,
                                      ShortTextWords + 1}}
SummaryOutputs == {WordsOf(n) : n \in {0, 1, 17}}

\* round(a / b, 2) in hundredths, ties to the even neighbour.
RoundRatio2(a, b) ==
    LET q == (100 * a) \div b
        r == (100 * a) % b
    IN  IF 2 * r > b \/ (2 * r = b /\ q % 2 = 1) THEN q + 1 ELSE q

\* Does summarize reach the model call of line 69?
CallsSummarizerAbove(text) == Len(text) > ShortTextWords

CallsSummarizer(text) == ~(Len(text) < ShortTextWords)

\* Lines 59-90: the try body; `outs` holds the outcome of the model call if
\* one is made.  Ratios are in hundredths (100 is 1.0).
SummarizeTry(text, max_length, min_length, outs) ==
    IF ~CallsSummarizer(text)
    THEN Returned([summary |-> text, compression_ratio |-> 100,
                   message |-> "text too short"])
    ELSE IF outs[1].raised THEN outs[1]
    ELSE LET summary == outs[1].value[1].summary_text
         IN  Returned([summary |-> summary,
                       original_length |-> Len(text),
                       summary_length |-> Len(summary),
                       compression_ratio |-> RoundRatio2(Len(summary), Len(text)),
                       message |-> "summary generated"])

SummarizeCall(text, max_length, min_length, outs) ==
    LET body == SummarizeTry(text, max_length, min_length, outs)
    IN  IF Caught(body)
        THEN Returned([error |-> body.message, summary |-> <<>>,
                       message |-> "summary failed"])
        ELSE body

\* -------------------------------- text_summarization.py: extractive_summary
\* A text is carried here as the list of its sentences, which is what
\* nltk.sent_tokenize yields, each sentence being the list of its words; the
\* summary `' '.join(selected_sentences)` is the list of the selected ones.
\* Lines 111-131: the try body, sent_tokenize ending as `out`.
ExtractiveTry(text, num_sentences, out) ==
    IF out.raised THEN out
    ELSE LET sentences == out.value
         IN  IF Len(sentences) <= num_sentences
             THEN Returned([summary |-> text, method |-> "extractive",
                            sentences_selected |-> Len(sentences)])
             ELSE Returned([summary |-> PySlice(sentences, 0, num_sentences),
                            method |-> "extractive",
                            sentences_selected |-> num_sentences,
                            total_sentences |-> Len(sentences)])

ExtractiveCall(text, num_sentences, out) ==
    LET body == ExtractiveTry(text, num_sentences, out)
    IN  IF Caught(body)
        THEN Returned([error |-> body.message, summary |-> <<>>,
                       method |-> "extractive"])
        ELSE body

\* ------------------------------------------- app.py: summarization mode
\* The two entries of the method selectbox (line 229): generative and
\* extractive.
Methods == {"shengchengshi", "chouqushi"}

\* Values of the two sliders (lines 225 and 227) within their ranges.
MaxLengths == {50, 150, 300}
MinLengths == {20, 50}

Sentence(n) == WordsOf(n)

\* Texts typed into the text area: nothing but blanks, and texts of one,
\* two, three and sixteen sentences.
UiTexts ==
    {<<>>,
     <<Sentence(1)>>,
     <<Sentence(1), Sentence(2)>>,
     <<Sentence(25), Sentence(25), Sentence(1)>>,
     [k \in 1..16 |-> Sentence(1)]}

\* `text_input.strip()` is empty: the text holds no word.
Blank(text) == text = <<>>

\* text.split(): the words of all sentences.
RECURSIVE Words(_)
Words(text) == IF text = <<>> THEN <<>> ELSE Head(text) \o Words(Tail(text))

\* Line 241: `max_length // 20`
EstimatedSentences(max_length) == max_length \div 20

\* The names the script has bound when line 244 is evaluated on the
\* extractive branch, with their values.
NamesAtCall(text_input, max_length, min_length, method) ==
    [text_input |-> text_input, max_length |-> max_length,
     min_length |-> min_length, method |-> method,
     num_sentences |-> EstimatedSentences(max_length)]

\* Evaluating a name: its value, or a NameError when it is not bound.
NameValue(names, name) ==
    IF name \in DOMAIN names THEN Returned(names[name])
    ELSE Raised("name is not defined")

\* Line 244: the name written as the num_sentences argument.
ArgumentName == "max_sentences"

\* Lines 247-262: what is rendered for a result.
Rendered(result) ==
    IF "error" \notin DOMAIN result
    THEN IF "compression_ratio" \in DOMAIN result
         THEN <<"summary", "metrics">>
         ELSE <<"summary">>
    ELSE <<"error">>

\* ----------------------------------------- text_generation.py: generate
GeneratedTexts == {"once upon a time", "once upon a time in a galaxy"}

\* The keyword defaults of generate; temperature and top_p in hundredths.
GenerateDefaults ==
    [max_length |-> 100, num_return_sequences |-> 1, temperature |-> 70,
     top_k |-> 50, top_p |-> 95, do_sample |-> TRUE]

\* Lines 49-80: the try body.
GenerateTry(prompt, params, out) ==
    IF out.raised THEN out
    ELSE LET generated_texts == [k \in DOMAIN out.value |-> out.value[k].generated_text]
         IN  Returned([prompt |-> prompt,
                       generated_texts |-> generated_texts,
                       num_sequences |-> Len(generated_texts),
                       parameters |-> [max_length |-> params.max_length,
                                       temperature |-> params.temperature,
                                       top_k |-> params.top_k,
                                       top_p |-> params.top_p]])

GenerateCall(prompt, params, out) ==
    LET body == GenerateTry(prompt, params, out)
    IN  IF Caught(body)
        THEN Returned([error |-> body.message, prompt |-> prompt,
                       generated_texts |-> <<>>])
        ELSE body

\* --------------------------------------------------- invocation frames
\* The five functions that work on locals only, as one step function each
\* over the frame of an invocation, so that several invocations can be in
\* progress at once.  A frame holds the locals of all five; an invocation
\* uses those of its own function.  Python creates the frame at the call.
Functions ==
    {"highlight_entities", "get_context_snippet", "get_entity_statistics",
     "get_sentiment_distribution", "multi_document_qa"}

NewFrame ==
    [phase |-> "first", idx |-> 0,
     sorted |-> <<>>, highlighted |-> <<>>,
     all |-> [etype \in EntityUniverse |-> <<>>], total |-> 0,
     results |-> <<>>, counts |-> [label \in SentimentLabels |-> 0],
     confidence |-> 0,
     best_answer |-> NoneValue, best_score |-> 0, best_doc_idx |-> -1]

\* Where the locals of the invocation run by a thread are kept: in that
\* invocation's own frame.
LocalsOnObject(thread) == 1

FrameOf(thread) == thread

\* Arguments the concurrent invocations are given.
FrameInputs(fn) ==
    CASE fn = "highlight_entities" -> {<<"a", "b">>}
      [] fn = "get_context_snippet" ->
            {[context |-> <<"0", "1", "2">>, start |-> 1, end |-> 2, window |-> w] :
                w \in {0, 1}}
      [] fn = "get_entity_statistics" -> {<<<<"t">>, <<"u">>>>}
      [] fn = "get_sentiment_distribution" -> {<<<<"t">>, <<"u">>>>}
      [] fn = "multi_document_qa" -> {<<DocShort>>, <<DocShort, DocLong>>}

FrameException == "CUDA out of memory"

\* What the model called in an iteration may return, or the exception.
FrameOutcomes(fn, frame, input) ==
    {Raised(FrameException)} \cup
    {Returned(v) : v \in
        CASE fn = "highlight_entities" ->
                UNION {[1..n -> {e \in RawEntities(input) :
                                    /\ e.end = e.start + 1
                                    /\ e.word = PySlice(input, e.start, e.end)
                                    /\ e.entity_group = "PER"}] : n \in 0..2}
          [] fn = "get_entity_statistics" ->
                UNION {[1..n -> {e \in StatEntities : e.word # "tim cook"}] : n \in 0..1}
          [] fn = "get_sentiment_distribution" ->
                {<<[label |-> l, score |-> 99987]>> : l \in {"POSITIVE", "LABEL_2"}}
          [] fn = "multi_document_qa" ->
                {c \in MdCandidates(input[frame.idx + 1]) : c.score # 4}
          [] OTHER -> {}}

\* What the invocation does next: call a model ("model"), work on its
\* locals ("local") or return ("return").
Pending(fn, frame, input) ==
    CASE fn = "highlight_entities" ->
            IF frame.phase = "first" THEN "model"
            ELSE IF frame.idx < Len(frame.sorted) THEN "local" ELSE "return"
      [] fn = "get_context_snippet" -> "return"
      [] fn = "get_entity_statistics" ->
            IF frame.idx < Len(input) THEN "model" ELSE "return"
      [] fn = "get_sentiment_distribution" ->
            IF frame.phase = "first"
            THEN IF frame.idx < Len(input) THEN "model" ELSE "local"
            ELSE IF frame.idx < Len(frame.results) THEN "local" ELSE "return"
      [] fn = "multi_document_qa" ->
            IF MoreDocuments(frame.idx, input, frame.best_score)
            THEN "model" ELSE "return"

\* ner.py lines 105-114: recognize, the empty check, the sort.
FrameHighlightCall(frame, text, out) ==
    LET result == Recognize(text, out)
        entities == Get(result, "entities", <<>>)
    IN  [frame EXCEPT !.phase = "second", !.idx = 0,
                      !.sorted = SortedByStartDesc(entities),
                      !.highlighted = IF entities = <<>>
                                      THEN UnchangedText(text, result)
                                      ELSE text]

\* ner.py lines 115-123: one iteration.
FrameSplice(frame) ==
    [frame EXCEPT !.idx = @ + 1,
                  !.highlighted = Splice(@, frame.sorted[frame.idx + 1])]

\* ner.py lines 146-153: one iteration.
FrameStatistics(frame, texts, out) ==
    LET result == Recognize(texts[frame.idx + 1], out)
    IN  [frame EXCEPT !.idx = @ + 1,
                      !.total = TotalAdd(@, result),
                      !.all = Accumulate(@, result)]

\* sentiment_analysis.py lines 95-96: one iteration of batch_analyze.
FrameAnalyze(frame, texts, out) ==
    [frame EXCEPT !.idx = @ + 1,
                  !.results = Append(@, AnalyzeCall(texts[frame.idx + 1], "en", out).value)]

\* sentiment_analysis.py lines 112-124: the initial counts, then one
\* iteration over results.
FrameCount(frame) ==
    IF frame.phase = "first"
    THEN [frame EXCEPT !.phase = "second", !.idx = 0,
                       !.counts = [label \in SentimentLabels |-> 0],
                       !.confidence = 0]
    ELSE [frame EXCEPT !.idx = @ + 1,
                       !.counts = CountSentiment(@, frame.results[frame.idx + 1]),
                       !.confidence = ConfidenceAdd(@, frame.results[frame.idx + 1])]

\* question_answering.py lines 145-152: one iteration.
FrameMultiDocument(frame, documents, out) ==
    LET result == AnswerCall("q", documents[frame.idx + 1], 1, out).value
        score == ScoreOf(result)
        better == Better(score, frame.best_score)
    IN  [frame EXCEPT !.idx = @ + 1,
                      !.best_score = IF better THEN score ELSE @,
                      !.best_answer = IF better THEN result ELSE @,
                      !.best_doc_idx = IF better THEN frame.idx ELSE @]

\* The frame after a step in which a model was called and ended as `out`.
ModelStep(fn, frame, input, out) ==
    CASE fn = "highlight_entities" -> FrameHighlightCall(frame, input, out)
      [] fn = "get_entity_statistics" -> FrameStatistics(frame, input, out)
      [] fn = "get_sentiment_distribution" -> FrameAnalyze(frame, input, out)
      [] fn = "multi_document_qa" -> FrameMultiDocument(frame, input, out)

\* The frame after a step on locals only.
LocalStep(fn, frame, input) ==
    CASE fn = "highlight_entities" -> FrameSplice(frame)
      [] fn = "get_sentiment_distribution" -> FrameCount(frame)

\* The value returned.
ReturnValue(fn, frame, input) ==
    CASE fn = "highlight_entities" -> frame.highlighted
      [] fn = "get_context_snippet" ->
            GetContextSnippet(input.context, input.start, input.end,
                              input.window).snippet
      [] fn = "get_entity_statistics" -> StatisticsResult(frame.all, frame.total)
      [] fn = "get_sentiment_distribution" ->
            DistributionResult(frame.counts, Len(input), frame.confidence).value
      [] fn = "multi_document_qa" ->
            MultiDocumentResult("q", input, frame.best_answer, frame.best_doc_idx)

\* ------------------------------------------------------------------ state
VARIABLES
    hl_pc,            \* highlight_entities: "idle", "loop" or "done"
    hl_text,          \* its argument
    hl_result,        \* what self.recognize(text) returned
    hl_sorted,        \* entities_sorted
    hl_i,             \* 1-based position of the for loop in entities_sorted
    hl_highlighted,   \* highlighted_text
    hl_ret,           \* the returned string
    sn_pc,            \* _get_context_snippet: "idle" or "done"
    sn_args,          \* its arguments context, start, end, window
    sn_frame,         \* its locals and its returned string
    st_pc,            \* get_entity_statistics: "idle", "loop" or "done"
    st_n,             \* len(texts)
    st_idx,           \* 1-based position of the for loop in texts
    st_results,       \* what recognize returned for the texts done so far
    st_all,           \* all_entity_types
    st_total,         \* total_entities
    st_ret,           \* the returned record
    ad_pc,            \* a model invocation adapter: "idle" or "done"
    ad_adapter,       \* which adapter was called
    ad_args,          \* its arguments
    ad_calls,         \* how each pipeline call it made ended
    ad_end,           \* how the adapter call itself ended
    sd_pc,            \* get_sentiment_distribution: "idle", "analyze", "count", "done"
    sd_n,             \* len(texts)
    sd_idx,           \* 1-based position of the running for loop
    sd_results,       \* results, as batch_analyze builds it
    sd_counts,        \* sentiment_counts
    sd_confidence,    \* total_confidence
    sd_end,           \* how the call ended
    md_pc,            \* multi_document_qa: "idle", "loop" or "done"
    md_documents,     \* its argument documents
    md_idx,           \* 0-based index of the next document of the for loop
    md_calls,         \* the 0-based indices answer() was invoked for, in order
    md_results,       \* what answer() returned, in order
    md_best_answer,   \* best_answer
    md_best_score,    \* best_score
    md_best_doc_idx,  \* best_doc_idx
    md_ret,            \* the returned record
    ui_pc,            \* summarization mode: "idle", "pressed", "called", "done", "failed"
    ui_input,         \* text_input, max_length, min_length and method
    ui_call,          \* the summarizer method called and its arguments
    ui_result,        \* result
    ui_shown,         \* the elements rendered below the button
    ui_exception,     \* the exception that ended the script run, if any
    cc_pc,            \* per thread: "idle", "run" or "done"
    cc_fn,            \* per thread: the function it has invoked
    cc_args,          \* per thread: the argument of the invocation
    cc_outs,          \* per thread: how the model calls made so far ended
    cc_ret,           \* per thread: the value returned to it
    cc_locals         \* the frames holding the locals

hl_vars == <<hl_pc, hl_text, hl_result, hl_sorted, hl_i, hl_highlighted, hl_ret>>

HlInit ==
    /\ hl_pc = "idle"
    /\ hl_text = <<>>
    /\ hl_result = [entities |-> <<>>]
    /\ hl_sorted = <<>>
    /\ hl_i = 1
    /\ hl_highlighted = <<>>
    /\ hl_ret = <<>>

\* Lines 105-114: recognize, the empty check, the sort.
HlCall(text, out) ==
    /\ LET result == Recognize(text, out)
           entities == Get(result, "entities", <<>>)
       IN  /\ hl_text' = text
           /\ hl_result' = result
           /\ hl_i' = 1
           /\ IF entities = <<>>
              THEN /\ hl_pc' = "done"
                   /\ hl_ret' = UnchangedText(text, result)
                   /\ hl_sorted' = <<>>
                   /\ hl_highlighted' = <<>>
              ELSE /\ hl_pc' = "loop"
                   /\ hl_sorted' = SortedByStartDesc(entities)
                   /\ hl_highlighted' = text
                   /\ hl_ret' = <<>>

\* highlight_entities(text) where the pipeline returns entities.
HlCallReturned ==
    /\ hl_pc = "idle"
    /\ \E text \in Texts : \E n \in 0..MaxSpans :
          \E v \in [1..n -> RawEntitiesOfText[text]] : HlCall(text, Returned(v))

\* highlight_entities(text) where the pipeline raises.
HlCallRaised ==
    /\ hl_pc = "idle"
    /\ \E text \in Texts, m \in ExceptionMessages : HlCall(text, Raised(m))

\* Lines 115-123: one iteration of the for loop.
HlSplice ==
    /\ hl_pc = "loop"
    /\ hl_i <= Len(hl_sorted)
    /\ hl_highlighted' = Splice(hl_highlighted, hl_sorted[hl_i])
    /\ hl_i' = hl_i + 1
    /\ UNCHANGED <<hl_pc, hl_text, hl_result, hl_sorted, hl_ret>>

\* Line 125.
HlReturn ==
    /\ hl_pc = "loop"
    /\ hl_i > Len(hl_sorted)
    /\ hl_pc' = "done"
    /\ hl_ret' = hl_highlighted
    /\ UNCHANGED <<hl_text, hl_result, hl_sorted, hl_i, hl_highlighted>>

\* The caller has taken the returned string; the frame is gone.
HlExit ==
    /\ hl_pc = "done"
    /\ hl_pc' = "idle"
    /\ hl_text' = <<>>
    /\ hl_result' = [entities |-> <<>>]
    /\ hl_sorted' = <<>>
    /\ hl_i' = 1
    /\ hl_highlighted' = <<>>
    /\ hl_ret' = <<>>

HlNext ==
    \/ HlCallReturned
    \/ HlCallRaised
    \/ HlSplice
    \/ HlReturn
    \/ HlExit

\* --------------------------------------------------- _get_context_snippet
sn_vars == <<sn_pc, sn_args, sn_frame>>

NoArgs == [context |-> <<>>, start |-> 0, end |-> 0, window |-> 0]

SnInit ==
    /\ sn_pc = "idle"
    /\ sn_args = NoArgs
    /\ sn_frame = GetContextSnippet(<<>>, 0, 0, 0)

\* Lines 101-112, for any context, offsets and non-negative window.
SnCall ==
    /\ sn_pc = "idle"
    /\ \E context \in Contexts, window \in Windows :
          \E start \in Offsets(context), end \in Offsets(context) :
             /\ sn_args' = [context |-> context, start |-> start,
                            end |-> end, window |-> window]
             /\ sn_frame' = GetContextSnippet(context, start, end, window)
    /\ sn_pc' = "done"

\* The caller has taken the returned string.
SnExit ==
    /\ sn_pc = "done"
    /\ sn_pc' = "idle"
    /\ sn_args' = NoArgs
    /\ sn_frame' = GetContextSnippet(<<>>, 0, 0, 0)

SnNext ==
    \/ SnCall
    \/ SnExit

\* -------------------------------------------------- get_entity_statistics
st_vars == <<st_pc, st_n, st_idx, st_results, st_all, st_total, st_ret>>

EmptyTypes == [etype \in EntityUniverse |-> <<>>]

StInit ==
    /\ st_pc = "idle"
    /\ st_n = 0
    /\ st_idx = 1
    /\ st_results = <<>>
    /\ st_all = EmptyTypes
    /\ st_total = 0
    /\ st_ret = StatisticsResult(EmptyTypes, 0)

\* Lines 137-144, for a list of any number of texts.
StCall ==
    /\ st_pc = "idle"
    /\ \E n \in 0..MaxTexts : st_n' = n
    /\ st_pc' = "loop"
    /\ st_idx' = 1
    /\ st_results' = <<>>
    /\ st_all' = EmptyTypes
    /\ st_total' = 0
    /\ UNCHANGED st_ret

\* Lines 146-153: one iteration, recognize having ended as `out`.
StIterate(out) ==
    LET result == Recognize(<<"t", "e", "x", "t">>, out)
    IN  /\ st_results' = Append(st_results, result)
        /\ st_total' = TotalAdd(st_total, result)
        /\ st_all' = Accumulate(st_all, result)
        /\ st_idx' = st_idx + 1
        /\ UNCHANGED <<st_pc, st_n, st_ret>>

\* An iteration in which the pipeline returns entities.
StStepReturned ==
    /\ st_pc = "loop"
    /\ st_idx <= st_n
    /\ \E k \in 0..MaxEntsPerText :
          \E v \in [1..k -> StatEntities] : StIterate(Returned(v))

\* An iteration in which the pipeline raises.
StStepRaised ==
    /\ st_pc = "loop"
    /\ st_idx <= st_n
    /\ \E m \in ExceptionMessages : StIterate(Raised(m))

\* Lines 155-163.
StFinish ==
    /\ st_pc = "loop"
    /\ st_idx > st_n
    /\ st_pc' = "done"
    /\ st_ret' = StatisticsResult(st_all, st_total)
    /\ UNCHANGED <<st_n, st_idx, st_results, st_all, st_total>>

\* The caller has taken the returned record.
StExit ==
    /\ st_pc = "done"
    /\ st_pc' = "idle"
    /\ st_n' = 0
    /\ st_idx' = 1
    /\ st_results' = <<>>
    /\ st_all' = EmptyTypes
    /\ st_total' = 0
    /\ st_ret' = StatisticsResult(EmptyTypes, 0)

StNext ==
    \/ StCall
    \/ StStepReturned
    \/ StStepRaised
    \/ StFinish
    \/ StExit

\* ----------------------------------------------- model invocation adapters
ad_vars == <<ad_pc, ad_adapter, ad_args, ad_calls, ad_end>>

AdInit ==
    /\ ad_pc = "idle"
    /\ ad_adapter = "none"
    /\ ad_args = <<>>
    /\ ad_calls = <<>>
    /\ ad_end = Returned(<<>>)

\* The ways a pipeline call can end, given the values it can return.
Outcomes(values) ==
    {Returned(v) : v \in values} \cup {Raised(m) : m \in ExceptionMessages}

AdDone(adapter, args, calls, end) ==
    /\ ad_pc' = "done"
    /\ ad_adapter' = adapter
    /\ ad_args' = args
    /\ ad_calls' = calls
    /\ ad_end' = end

\* ner.py lines 29-78.
AdRecognize ==
    /\ ad_pc = "idle"
    /\ \E text \in Texts :
          \E out \in Outcomes(UNION {[1..n -> RawEntitiesOfText[text]] : n \in 0..MaxSpans}) :
             AdDone("recognize", [text |-> text], <<out>>, RecognizeCall(text, out))

\* sentiment_analysis.py lines 40-81; chinese_pipeline tells whether the
\* second model was loaded at construction.
AdAnalyze ==
    /\ ad_pc = "idle"
    /\ \E text \in Texts, language \in {"en", "zh"}, chinese_pipeline \in BOOLEAN :
          \E out \in Outcomes({<<[label |-> l, score |-> sc]>> :
                                  l \in PipelineLabels, sc \in SentimentScores}) :
             AdDone("analyze",
                    [text |-> text, language |-> language,
                     pipeline |-> PipelineFor(language, chinese_pipeline)],
                    <<out>>, AnalyzeCall(text, language, out))

\* question_answering.py lines 28-85.
AdAnswer ==
    /\ ad_pc = "idle"
    /\ \E context \in Contexts \ {CtxExample}, top_k \in 1..MaxTopK :
          \E out \in Outcomes(IF top_k = 1 THEN QaCandidates(context)
                              ELSE UNION {[1..n -> QaCandidates(context)] : n \in 0..top_k}) :
             AdDone("answer", [question |-> "q", context |-> context, top_k |-> top_k],
                    <<out>>, AnswerCall("q", context, top_k, out))

\* text_summarization.py lines 45-97.
AdSummarize ==
    /\ ad_pc = "idle"
    /\ \E text \in SummaryInputs :
          \E calls \in IF CallsSummarizer(text)
                       THEN {<<out>> : out \in Outcomes({<<[summary_text |-> sm]>> :
                                                            sm \in SummaryOutputs})}
                       ELSE {<<>>} :
             AdDone("summarize", [text |-> text, max_length |-> 150, min_length |-> 50],
                    calls, SummarizeCall(text, 150, 50, calls))

\* text_generation.py lines 30-87.
AdGenerate ==
    /\ ad_pc = "idle"
    /\ \E num \in 1..MaxSequences :
          \E out \in Outcomes([1..num -> {[generated_text |-> g] : g \in GeneratedTexts}]) :
             LET params == [GenerateDefaults EXCEPT !.num_return_sequences = num]
             IN  AdDone("generate", [prompt |-> "once", params |-> params],
                        <<out>>, GenerateCall("once", params, out))

\* The caller has taken the result.
AdExit ==
    /\ ad_pc = "done"
    /\ ad_pc' = "idle"
    /\ ad_adapter' = "none"
    /\ ad_args' = <<>>
    /\ ad_calls' = <<>>
    /\ ad_end' = Returned(<<>>)

AdNext ==
    \/ AdRecognize
    \/ AdAnalyze
    \/ AdAnswer
    \/ AdSummarize
    \/ AdGenerate
    \/ AdExit

\* --------------------------------------------- get_sentiment_distribution
sd_vars == <<sd_pc, sd_n, sd_idx, sd_results, sd_counts, sd_confidence, sd_end>>

ZeroCounts == [label \in SentimentLabels |-> 0]

SdInit ==
    /\ sd_pc = "idle"
    /\ sd_n = 0
    /\ sd_idx = 1
    /\ sd_results = <<>>
    /\ sd_counts = ZeroCounts
    /\ sd_confidence = 0
    /\ sd_end = Returned(<<>>)

\* Line 110 and batch_analyze lines 94-95, for a list of any number of texts.
SdCall ==
    /\ sd_pc = "idle"
    /\ \E n \in 0..MaxReviews : sd_n' = n
    /\ sd_pc' = "analyze"
    /\ sd_idx' = 1
    /\ sd_results' = <<>>
    /\ UNCHANGED <<sd_counts, sd_confidence, sd_end>>

\* batch_analyze line 96: one text analyzed, the pipeline ending as `out`.
SdAnalyze ==
    /\ sd_pc = "analyze"
    /\ sd_idx <= sd_n
    /\ \E out \in Outcomes({<<[label |-> l, score |-> sc]>> :
                              l \in PipelineLabels, sc \in SentimentScores}) :
          sd_results' = Append(sd_results, AnalyzeCall(<<"t">>, "en", out).value)
    /\ sd_idx' = sd_idx + 1
    /\ UNCHANGED <<sd_pc, sd_n, sd_counts, sd_confidence, sd_end>>

\* batch_analyze line 97 and lines 112-118.
SdStartCount ==
    /\ sd_pc = "analyze"
    /\ sd_idx > sd_n
    /\ sd_pc' = "count"
    /\ sd_idx' = 1
    /\ sd_counts' = ZeroCounts
    /\ sd_confidence' = 0
    /\ UNCHANGED <<sd_n, sd_results, sd_end>>

\* Lines 120-124: one iteration over results.
SdCount ==
    /\ sd_pc = "count"
    /\ sd_idx <= Len(sd_results)
    /\ sd_counts' = CountSentiment(sd_counts, sd_results[sd_idx])
    /\ sd_confidence' = ConfidenceAdd(sd_confidence, sd_results[sd_idx])
    /\ sd_idx' = sd_idx + 1
    /\ UNCHANGED <<sd_pc, sd_n, sd_results, sd_end>>

\* Lines 126-130.
SdFinish ==
    /\ sd_pc = "count"
    /\ sd_idx > Len(sd_results)
    /\ sd_pc' = "done"
    /\ sd_end' = DistributionResult(sd_counts, sd_n, sd_confidence)
    /\ UNCHANGED <<sd_n, sd_idx, sd_results, sd_counts, sd_confidence>>

\* The caller has taken the result.
SdExit ==
    /\ sd_pc = "done"
    /\ sd_pc' = "idle"
    /\ sd_n' = 0
    /\ sd_idx' = 1
    /\ sd_results' = <<>>
    /\ sd_counts' = ZeroCounts
    /\ sd_confidence' = 0
    /\ sd_end' = Returned(<<>>)

SdNext ==
    \/ SdCall
    \/ SdAnalyze
    \/ SdStartCount
    \/ SdCount
    \/ SdFinish
    \/ SdExit

\* ------------------------------------------------------ multi_document_qa
md_vars == <<md_pc, md_documents, md_idx, md_calls, md_results,
             md_best_answer, md_best_score, md_best_doc_idx, md_ret>>

MdQuestion == "q"

MdInit ==
    /\ md_pc = "idle"
    /\ md_documents = <<>>
    /\ md_idx = 0
    /\ md_calls = <<>>
    /\ md_results = <<>>
    /\ md_best_answer = NoneValue
    /\ md_best_score = 0
    /\ md_best_doc_idx = -1
    /\ md_ret = NoneValue

\* Lines 141-143, for any list of documents.
MdCall ==
    /\ md_pc = "idle"
    /\ \E n \in 0..MaxDocs : \E documents \in [1..n -> Docs] :
          md_documents' = documents
    /\ md_pc' = "loop"
    /\ md_idx' = 0
    /\ md_calls' = <<>>
    /\ md_results' = <<>>
    /\ md_best_answer' = NoneValue
    /\ md_best_score' = 0
    /\ md_best_doc_idx' = -1
    /\ UNCHANGED md_ret

\* Lines 145-152: one iteration, the pipeline inside answer() ending as `out`.
MdIterate(out) ==
    LET doc == md_documents[md_idx + 1]
        result == AnswerCall(MdQuestion, doc, 1, out).value
        score == ScoreOf(result)
    IN  /\ md_calls' = Append(md_calls, md_idx)
        /\ md_results' = Append(md_results, result)
        /\ IF Better(score, md_best_score)
           THEN /\ md_best_score' = score
                /\ md_best_answer' = result
                /\ md_best_doc_idx' = md_idx
           ELSE UNCHANGED <<md_best_score, md_best_answer, md_best_doc_idx>>
        /\ md_idx' = md_idx + 1
        /\ UNCHANGED <<md_pc, md_documents, md_ret>>

\* An iteration in which the pipeline returns an answer.
MdStepReturned ==
    /\ md_pc = "loop"
    /\ MoreDocuments(md_idx, md_documents, md_best_score)
    /\ \E c \in MdCandidates(md_documents[md_idx + 1]) : MdIterate(Returned(c))

\* An iteration in which the pipeline raises.
MdStepRaised ==
    /\ md_pc = "loop"
    /\ MoreDocuments(md_idx, md_documents, md_best_score)
    /\ \E m \in ExceptionMessages : MdIterate(Raised(m))

\* Lines 154-162.
MdFinish ==
    /\ md_pc = "loop"
    /\ ~MoreDocuments(md_idx, md_documents, md_best_score)
    /\ md_pc' = "done"
    /\ md_ret' = MultiDocumentResult(MdQuestion, md_documents, md_best_answer,
                                     md_best_doc_idx)
    /\ UNCHANGED <<md_documents, md_idx, md_calls, md_results,
                   md_best_answer, md_best_score, md_best_doc_idx>>

\* The caller has taken the returned record.
MdExit ==
    /\ md_pc = "done"
    /\ md_pc' = "idle"
    /\ md_documents' = <<>>
    /\ md_idx' = 0
    /\ md_calls' = <<>>
    /\ md_results' = <<>>
    /\ md_best_answer' = NoneValue
    /\ md_best_score' = 0
    /\ md_best_doc_idx' = -1
    /\ md_ret' = NoneValue

MdNext ==
    \/ MdCall
    \/ MdStepReturned
    \/ MdStepRaised
    \/ MdFinish
    \/ MdExit

\* ------------------------------------------- app.py: summarization mode
ui_vars == <<ui_pc, ui_input, ui_call, ui_result, ui_shown, ui_exception>>

UiInit ==
    /\ ui_pc = "idle"
    /\ ui_input = NoneValue
    /\ ui_call = NoneValue
    /\ ui_result = NoneValue
    /\ ui_shown = <<>>
    /\ ui_exception = NoneValue

\* Line 231: the button is pressed with some text, slider values and method.
UiPress ==
    /\ ui_pc = "idle"
    /\ \E text \in UiTexts, max_length \in MaxLengths, min_length \in MinLengths,
          method \in Methods :
          ui_input' = [text_input |-> text, max_length |-> max_length,
                       min_length |-> min_length, method |-> method]
    /\ ui_pc' = "pressed"
    /\ UNCHANGED <<ui_call, ui_result, ui_shown, ui_exception>>

\* Lines 232 and 263-264: blank input.
UiWarn ==
    /\ ui_pc = "pressed"
    /\ Blank(ui_input.text_input)
    /\ ui_pc' = "done"
    /\ ui_shown' = <<"warning">>
    /\ UNCHANGED <<ui_input, ui_call, ui_result, ui_exception>>

\* Lines 234-239: the generative method.
UiGenerative ==
    /\ ui_pc = "pressed"
    /\ ~Blank(ui_input.text_input)
    /\ ui_input.method = "shengchengshi"
    /\ LET text == Words(ui_input.text_input)
       IN  \E calls \in IF CallsSummarizer(text)
                        THEN {<<out>> : out \in Outcomes({<<[summary_text |-> sm]>> :
                                                             sm \in SummaryOutputs})}
                        ELSE {<<>>} :
              ui_result' = SummarizeCall(text, ui_input.max_length,
                                         ui_input.min_length, calls).value
    /\ ui_call' = [callee |-> "summarize", max_length |-> ui_input.max_length,
                   min_length |-> ui_input.min_length]
    /\ ui_pc' = "called"
    /\ UNCHANGED <<ui_input, ui_shown, ui_exception>>

\* Lines 240-245: the extractive method.  The argument of line 244 is
\* evaluated before the call is made.
UiExtractive ==
    /\ ui_pc = "pressed"
    /\ ~Blank(ui_input.text_input)
    /\ ui_input.method = "chouqushi"
    /\ LET names == NamesAtCall(ui_input.text_input, ui_input.max_length,
                                ui_input.min_length, ui_input.method)
           argument == NameValue(names, ArgumentName)
       IN  IF argument.raised
           THEN /\ ui_pc' = "failed"
                /\ ui_exception' = [exception |-> "NameError",
                                    message |-> argument.message]
                /\ UNCHANGED <<ui_call, ui_result>>
           ELSE /\ ui_pc' = "called"
                /\ ui_call' = [callee |-> "extractive_summary",
                               num_sentences |-> argument.value]
                /\ \E out \in Outcomes({ui_input.text_input}) :
                      ui_result' = ExtractiveCall(ui_input.text_input,
                                                  argument.value, out).value
                /\ UNCHANGED ui_exception
    /\ UNCHANGED <<ui_input, ui_shown>>

\* Lines 247-262.
UiRender ==
    /\ ui_pc = "called"
    /\ ui_pc' = "done"
    /\ ui_shown' = Rendered(ui_result)
    /\ UNCHANGED <<ui_input, ui_call, ui_result, ui_exception>>

\* The script run is over; the page waits for the next press.
UiExit ==
    /\ ui_pc \in {"done", "failed"}
    /\ ui_pc' = "idle"
    /\ ui_input' = NoneValue
    /\ ui_call' = NoneValue
    /\ ui_result' = NoneValue
    /\ ui_shown' = <<>>
    /\ ui_exception' = NoneValue

UiNext ==
    \/ UiPress
    \/ UiWarn
    \/ UiGenerative
    \/ UiExtractive
    \/ UiRender
    \/ UiExit

\* ------------------------------------------------ concurrent invocations
cc_vars == <<cc_pc, cc_fn, cc_args, cc_outs, cc_ret, cc_locals>>

\* Two callers on the same objects.
Threads == {1, 2}

CcInit ==
    /\ cc_pc = [t \in Threads |-> "idle"]
    /\ cc_fn = [t \in Threads |-> "none"]
    /\ cc_args = [t \in Threads |-> NoneValue]
    /\ cc_outs = [t \in Threads |-> <<>>]
    /\ cc_ret = [t \in Threads |-> NoneValue]
    /\ cc_locals = [t \in Threads |-> NewFrame]

\* A thread calls one of the functions: a new frame.
CcInvoke ==
    \E t \in Threads :
        /\ cc_pc[t] = "idle"
        /\ \E fn \in Functions : \E input \in FrameInputs(fn) :
              /\ cc_fn' = [cc_fn EXCEPT ![t] = fn]
              /\ cc_args' = [cc_args EXCEPT ![t] = input]
        /\ cc_pc' = [cc_pc EXCEPT ![t] = "run"]
        /\ cc_outs' = [cc_outs EXCEPT ![t] = <<>>]
        /\ cc_locals' = [cc_locals EXCEPT ![FrameOf(t)] = NewFrame]
        /\ UNCHANGED cc_ret

\* A thread's invocation calls a model and takes in how the call ended.
CcModelStep ==
    \E t \in Threads :
        /\ cc_pc[t] = "run"
        /\ Pending(cc_fn[t], cc_locals[FrameOf(t)], cc_args[t]) = "model"
        /\ \E out \in FrameOutcomes(cc_fn[t], cc_locals[FrameOf(t)], cc_args[t]) :
              /\ cc_locals' = [cc_locals EXCEPT ![FrameOf(t)] =
                                  ModelStep(cc_fn[t], @, cc_args[t], out)]
              /\ cc_outs' = [cc_outs EXCEPT ![t] = Append(@, out)]
        /\ UNCHANGED <<cc_pc, cc_fn, cc_args, cc_ret>>

\* A thread's invocation takes a step on its locals.
CcLocalStep ==
    \E t \in Threads :
        /\ cc_pc[t] = "run"
        /\ Pending(cc_fn[t], cc_locals[FrameOf(t)], cc_args[t]) = "local"
        /\ cc_locals' = [cc_locals EXCEPT ![FrameOf(t)] =
                            LocalStep(cc_fn[t], @, cc_args[t])]
        /\ UNCHANGED <<cc_pc, cc_fn, cc_args, cc_outs, cc_ret>>

\* A thread's invocation returns.
CcReturn ==
    \E t \in Threads :
        /\ cc_pc[t] = "run"
        /\ Pending(cc_fn[t], cc_locals[FrameOf(t)], cc_args[t]) = "return"
        /\ cc_ret' = [cc_ret EXCEPT ![t] =
                         ReturnValue(cc_fn[t], cc_locals[FrameOf(t)], cc_args[t])]
        /\ cc_pc' = [cc_pc EXCEPT ![t] = "done"]
        /\ UNCHANGED <<cc_fn, cc_args, cc_outs, cc_locals>>

\* The caller has taken the returned value; the frame is gone.
CcExit ==
    \E t \in Threads :
        /\ cc_pc[t] = "done"
        /\ cc_pc' = [cc_pc EXCEPT ![t] = "idle"]
        /\ cc_fn' = [cc_fn EXCEPT ![t] = "none"]
        /\ cc_args' = [cc_args EXCEPT ![t] = NoneValue]
        /\ cc_outs' = [cc_outs EXCEPT ![t] = <<>>]
        /\ cc_ret' = [cc_ret EXCEPT ![t] = NoneValue]
        /\ cc_locals' = [cc_locals EXCEPT ![FrameOf(t)] = NewFrame]

CcNext ==
    \/ CcInvoke
    \/ CcModelStep
    \/ CcLocalStep
    \/ CcReturn
    \/ CcExit

\* --------------------------------------------------------- specifications
vars == <<hl_vars, sn_vars, st_vars, ad_vars, sd_vars, md_vars, ui_vars, cc_vars>>

Init == HlInit /\ SnInit /\ StInit /\ AdInit /\ SdInit /\ MdInit /\ UiInit /\ CcInit

SpecHighlight ==
    Init /\ [][HlNext /\ UNCHANGED <<sn_vars, st_vars, ad_vars, sd_vars, md_vars, ui_vars, cc_vars>>]_vars

SpecSnippet ==
    Init /\ [][SnNext /\ UNCHANGED <<hl_vars, st_vars, ad_vars, sd_vars, md_vars, ui_vars, cc_vars>>]_vars

SpecStatistics ==
    Init /\ [][StNext /\ UNCHANGED <<hl_vars, sn_vars, ad_vars, sd_vars, md_vars, ui_vars, cc_vars>>]_vars

SpecAdapters ==
    Init /\ [][AdNext /\ UNCHANGED <<hl_vars, sn_vars, st_vars, sd_vars, md_vars, ui_vars, cc_vars>>]_vars

SpecSentiment ==
    Init /\ [][SdNext /\ UNCHANGED <<hl_vars, sn_vars, st_vars, ad_vars, md_vars, ui_vars, cc_vars>>]_vars

SpecMultiDoc ==
    Init /\ [][MdNext /\ UNCHANGED <<hl_vars, sn_vars, st_vars, ad_vars, sd_vars, ui_vars, cc_vars>>]_vars

SpecUi ==
    Init /\ [][UiNext /\ UNCHANGED <<hl_vars, sn_vars, st_vars, ad_vars, sd_vars, md_vars, cc_vars>>]_vars

SpecConcurrent ==
    Init /\ [][CcNext /\ UNCHANGED <<hl_vars, sn_vars, st_vars, ad_vars, sd_vars, md_vars, ui_vars>>]_vars

\* The three aggregation functions, one call at a time.
AggNext ==
    \/ (sd_pc = "idle" /\ md_pc = "idle" /\ StNext /\ UNCHANGED <<sd_vars, md_vars>>)
    \/ (st_pc = "idle" /\ md_pc = "idle" /\ SdNext /\ UNCHANGED <<st_vars, md_vars>>)
    \/ (st_pc = "idle" /\ sd_pc = "idle" /\ MdNext /\ UNCHANGED <<st_vars, sd_vars>>)

SpecAggregation ==
    Init /\ [][AggNext /\ UNCHANGED <<hl_vars, sn_vars, ad_vars, ui_vars, cc_vars>>]_vars

\* ------------------------------------------- highlight_entities: claims
NonOverlapping(entities) ==
    \A j, k \in DOMAIN entities :
        j # k => \/ entities[j].end <= entities[k].start
                 \/ entities[k].end <= entities[j].start

InBounds(text, entities) ==
    \A k \in DOMAIN entities :
        0 <= entities[k].start /\ entities[k].start < entities[k].end
                               /\ entities[k].end <= Len(text)

RefMarker(entity) ==
    <<"[">> \o entity.text \o <<"]">> \o <<"(">> \o Chars(entity.type) \o <<")">>

\* Left-to-right reference construction: walk over the text; where a span
\* starts, emit its marker and continue after its end; elsewhere copy the
\* character.
RECURSIVE RefHighlight(_, _, _)
RefHighlight(text, entities, pos) ==
    IF pos >= Len(text) THEN <<>>
    ELSE IF \E k \in DOMAIN entities : entities[k].start = pos
         THEN LET e == entities[CHOOSE k \in DOMAIN entities : entities[k].start = pos]
              IN  RefMarker(e) \o RefHighlight(text, entities, e.end)
         ELSE <<text[pos + 1]>> \o RefHighlight(text, entities, pos + 1)

HlEntities == Get(hl_result, "entities", <<>>)

\* C1: for a non-empty set of pairwise non-overlapping, in-bounds spans,
\* highlight_entities returns the left-to-right reference construction:
\* every span replaced by "[text](type)", every other character kept in
\* order; a single span covering the whole text yields exactly its marker.
C1_HighlightEqualsReference ==
    (hl_pc = "done" /\ HlEntities # <<>> /\ InBounds(hl_text, HlEntities)
                    /\ NonOverlapping(HlEntities))
    => /\ hl_ret = RefHighlight(hl_text, HlEntities, 0)
       /\ (Len(HlEntities) = 1 /\ HlEntities[1].start = 0
                               /\ HlEntities[1].end = Len(hl_text))
          => hl_ret = RefMarker(HlEntities[1])

\* Two spans given in ascending order with an unmarked character between or
\* around them have been highlighted.
C1_Witness ==
    /\ hl_pc = "done"
    /\ Len(HlEntities) = 2
    /\ NonOverlapping(HlEntities)
    /\ HlEntities[1].start < HlEntities[2].start
    /\ HlEntities[1].type # HlEntities[2].type
    /\ \E pos \in 0..(Len(hl_text) - 1) :
          \A k \in DOMAIN HlEntities :
              pos < HlEntities[k].start \/ pos >= HlEntities[k].end
    /\ hl_ret = RefHighlight(hl_text, HlEntities, 0)

\* C2: when a span is about to be spliced, the working text still holds the
\* original characters at the offsets of that span and of every span not yet
\* processed, provided the spans are in bounds and do not overlap.
C2_PendingOffsetsValid ==
    (hl_pc = "loop" /\ InBounds(hl_text, hl_sorted) /\ NonOverlapping(hl_sorted))
    => \A k \in hl_i..Len(hl_sorted) :
          PySlice(hl_highlighted, hl_sorted[k].start, hl_sorted[k].end)
            = PySlice(hl_text, hl_sorted[k].start, hl_sorted[k].end)

\* One span has been spliced, the text has changed, and a span to its left
\* is waiting with its characters intact.
C2_Witness ==
    /\ hl_pc = "loop"
    /\ hl_i = 2
    /\ Len(hl_sorted) >= 2
    /\ NonOverlapping(hl_sorted)
    /\ hl_highlighted # hl_text
    /\ PySlice(hl_highlighted, hl_sorted[2].start, hl_sorted[2].end)
         = PySlice(hl_text, hl_sorted[2].start, hl_sorted[2].end)

IndexPermutations(n) == {p \in [1..n -> 1..n] : \A j, k \in 1..n : j # k => p[j] # p[k]}

\* C3: for non-overlapping in-bounds spans the returned string is the same
\* for every permutation of the span sequence the pipeline reports.
C3_OrderIndependent ==
    (hl_pc = "done" /\ Len(HlEntities) >= 2 /\ InBounds(hl_text, HlEntities)
                    /\ NonOverlapping(HlEntities))
    => \A p \in IndexPermutations(Len(HlEntities)) :
          SpliceAll(hl_text,
                    SortedByStartDesc([k \in DOMAIN HlEntities |-> HlEntities[p[k]]]))
            = hl_ret

\* Two non-overlapping spans reported left span first have been highlighted.
C3_Witness ==
    /\ hl_pc = "done"
    /\ Len(HlEntities) = 2
    /\ NonOverlapping(HlEntities)
    /\ HlEntities[1].end <= HlEntities[2].start
    /\ hl_ret # hl_text

\* C4: with an empty span sequence, which includes the error record of a
\* failed recognition, highlight_entities returns its input text unchanged.
C4_EmptyReturnsText ==
    (hl_pc = "done" /\ HlEntities = <<>>) => hl_ret = hl_text

\* Recognition failed on a non-empty text and the text came back unchanged.
C4_Witness ==
    /\ hl_pc = "done"
    /\ "error" \in DOMAIN hl_result
    /\ hl_text # <<>>
    /\ hl_ret = hl_text

\* ----------------------------------------- _get_context_snippet: claims
Ellipsis == <<".", ".", ".">>

\* C5: the result is context[snippet_start:snippet_end] with
\* snippet_start = max(0, start - window) and
\* snippet_end = min(len(context), end + window), prefixed by "..." iff
\* snippet_start > 0 and suffixed by "..." iff snippet_end < len(context);
\* on the 30-character example with start 2, end 4, window 3 it is
\* "0123456...".
C5_SnippetShape ==
    sn_pc = "done" =>
      LET n == Len(sn_args.context)
          lo == IF sn_args.start - sn_args.window > 0
                THEN sn_args.start - sn_args.window ELSE 0
          hi == IF sn_args.end + sn_args.window < n
                THEN sn_args.end + sn_args.window ELSE n
      IN  /\ sn_frame.snippet_start = lo
          /\ sn_frame.snippet_end = hi
          /\ sn_frame.snippet =
                (IF lo > 0 THEN Ellipsis ELSE <<>>)
                \o PySlice(sn_args.context, lo, hi)
                \o (IF hi < n THEN Ellipsis ELSE <<>>)
          /\ (sn_args = [context |-> CtxExample, start |-> 2, end |-> 4, window |-> 3])
             => sn_frame.snippet = <<"0", "1", "2", "3", "4", "5", "6", ".", ".", ".">>

\* The worked example has been computed.
C5_Witness ==
    /\ sn_pc = "done"
    /\ sn_args = [context |-> CtxExample, start |-> 2, end |-> 4, window |-> 3]
    /\ sn_frame.snippet = <<"0", "1", "2", "3", "4", "5", "6", ".", ".", ".">>

\* C6 as stated: snippet(ctx, 10, 15, window=5) on the 30-character context
\* is ctx[5:20] without markers; a leading marker appears only when
\* start - window < 0 and a trailing one only when end + window > len(context).
C6_MarkersOnlyWhenClamped ==
    (sn_pc = "done" /\ 0 <= sn_args.start /\ sn_args.start <= sn_args.end
                    /\ sn_args.end <= Len(sn_args.context)) =>
      /\ (sn_args = [context |-> CtxExample, start |-> 10, end |-> 15, window |-> 5])
         => sn_frame.snippet = PySlice(CtxExample, 5, 20)
      /\ sn_frame.leading => sn_args.start - sn_args.window < 0
      /\ sn_frame.trailing => sn_args.end + sn_args.window > Len(sn_args.context)

\* C6 amended: snippet(ctx, 10, 15, window=5) on the 30-character context is
\* "..." + ctx[5:20] + "..."; a leading marker is added exactly when
\* start - window > 0 (context precedes the window) and a trailing one
\* exactly when end + window < len(context) (context follows the window), so
\* never on a side where clamping occurred.
C6_MarkersWhenTruncated ==
    sn_pc = "done" =>
      /\ (sn_args = [context |-> CtxExample, start |-> 10, end |-> 15, window |-> 5])
         => sn_frame.snippet = Ellipsis \o PySlice(CtxExample, 5, 20) \o Ellipsis
      /\ sn_frame.leading <=> sn_args.start - sn_args.window > 0
      /\ sn_frame.trailing <=> sn_args.end + sn_args.window < Len(sn_args.context)
      /\ sn_args.start - sn_args.window < 0 => ~sn_frame.leading
      /\ sn_args.end + sn_args.window > Len(sn_args.context) => ~sn_frame.trailing

\* The example of the claim has been computed and carries both markers.
C6_Witness ==
    /\ sn_pc = "done"
    /\ sn_args = [context |-> CtxExample, start |-> 10, end |-> 15, window |-> 5]
    /\ sn_frame.leading
    /\ sn_frame.trailing

\* C7: _get_context_snippet returns a string for every context, start, end
\* and non-negative window, and the bounds it slices with lie in the context:
\* 0 <= snippet_start <= len(context) and 0 <= snippet_end <= len(context).
C7_BoundsClamped ==
    sn_pc = "done" =>
      /\ DOMAIN sn_frame.snippet = 1..Len(sn_frame.snippet)
      /\ 0 <= sn_frame.snippet_start
      /\ sn_frame.snippet_start <= Len(sn_args.context)
      /\ 0 <= sn_frame.snippet_end
      /\ sn_frame.snippet_end <= Len(sn_args.context)

\* ---------------------------------------- get_entity_statistics: claims
\* Every entity of every per-text result, in encounter order.
RECURSIVE AllMentions(_)
AllMentions(results) ==
    IF results = <<>> THEN <<>>
    ELSE Get(Head(results), "entities", <<>>) \o AllMentions(Tail(results))

Mentions(results, type, text) ==
    Len(SelectSeq(AllMentions(results), LAMBDA e : e.type = type /\ e.text = text))

DistinctOfType(results, type) ==
    LET all == AllMentions(results)
    IN  Cardinality({all[k].text : k \in {j \in DOMAIN all : all[j].type = type}})

\* Two results holding `person` "Tim Cook" twice, ORG "Apple" once, nothing else.
TimCookExample(results, person) ==
    /\ Len(results) = 2
    /\ Len(AllMentions(results)) = 3
    /\ Mentions(results, person, "Tim Cook") = 2
    /\ Mentions(results, "ORG", "Apple") = 1

\* C8 as stated: over the universe PERSON, ORG, LOCATION, MISC, the count of
\* a type is the number of distinct strings of that type seen in all texts;
\* PERSON "Tim Cook" twice and ORG "Apple" once give PERSON 1 and total 3.
C8_CountsOverSpecUniverse ==
    st_pc = "done" =>
      /\ \A type \in {"PERSON", "ORG", "LOCATION", "MISC"} :
            Get(st_ret.entity_counts, type, 0) = DistinctOfType(st_results, type)
      /\ TimCookExample(st_results, "PERSON")
         => /\ Get(st_ret.entity_counts, "PERSON", 0) = 1
            /\ st_ret.total_entities = 3

\* C8 amended: the fixed universe is PER, ORG, LOC, MISC; entity_counts has
\* exactly these keys and entity_counts[type] is the number of distinct
\* (case-sensitive) strings of that type seen in all texts; PER "Tim Cook"
\* twice and ORG "Apple" once give entity_counts.PER = 1 and total 3.
C8_CountsDistinctPerType ==
    st_pc = "done" =>
      /\ DOMAIN st_ret.entity_counts = {"PER", "ORG", "LOC", "MISC"}
      /\ \A type \in {"PER", "ORG", "LOC", "MISC"} :
            /\ st_ret.entity_counts[type] = DistinctOfType(st_results, type)
            /\ st_ret.entity_counts[type] = Cardinality(st_ret.unique_entities[type])
      /\ TimCookExample(st_results, "PER")
         => /\ st_ret.entity_counts["PER"] = 1
            /\ st_ret.total_entities = 3

\* The example has been aggregated, with both spellings kept apart elsewhere.
C8_Witness ==
    /\ st_pc = "done"
    /\ TimCookExample(st_results, "PER")
    /\ st_ret.entity_counts["PER"] = 1
    /\ st_ret.entity_counts["ORG"] = 1
    /\ st_ret.total_entities = 3

RECURSIVE SumOver(_, _)
SumOver(f, S) ==
    IF S = {} THEN 0
    ELSE LET x == CHOOSE y \in S : TRUE IN f[x] + SumOver(f, S \ {x})

\* C9: total_entities is the number of all mentions in all per-text results,
\* before deduplication and whatever their type, hence at least the sum of
\* entity_counts over all types.
C9_TotalCountsMentions ==
    st_pc = "done" =>
      /\ st_ret.total_entities = Len(AllMentions(st_results))
      /\ st_ret.total_entities
           >= SumOver(st_ret.entity_counts, DOMAIN st_ret.entity_counts)

\* A repeated mention and a mention of an unknown type make the total
\* strictly larger than the sum of the counts.
C9_Witness ==
    /\ st_pc = "done"
    /\ Mentions(st_results, "PER", "Tim Cook") = 2
    /\ Mentions(st_results, "PERSON", "Tim Cook") = 1
    /\ st_ret.total_entities = 3
    /\ SumOver(st_ret.entity_counts, DOMAIN st_ret.entity_counts) = 1

\* --------------------------------------- model invocation adapters: claims
\* The payload of an adapter's result record is empty.
EmptyPayload(adapter, rec) ==
    CASE adapter = "recognize" -> rec.entities = <<>> /\ rec.total_entities = 0
      [] adapter = "analyze" -> rec.confidence = 0
      [] adapter = "answer" -> rec.confidence = 0
      [] adapter = "summarize" -> rec.summary = <<>>
      [] adapter = "generate" -> rec.generated_texts = <<>>

\* C10: no adapter call ends in an exception; when the pipeline call raised,
\* the adapter returns a record whose 'error' field is the stringified
\* exception and whose payload is empty.
C10_AdaptersNeverRaise ==
    ad_pc = "done" =>
      /\ ~ad_end.raised
      /\ \A k \in DOMAIN ad_calls :
            ad_calls[k].raised
            => /\ "error" \in DOMAIN ad_end.value
               /\ ad_end.value.error = ad_calls[k].message
               /\ EmptyPayload(ad_adapter, ad_end.value)

\* The summarization model was called on a long text and raised; the
\* adapter returned its error record.
C10_Witness ==
    /\ ad_pc = "done"
    /\ ad_adapter = "summarize"
    /\ ad_calls # <<>>
    /\ ad_calls[1].raised
    /\ ~ad_end.raised
    /\ ad_end.value.error = "CUDA out of memory"
    /\ ad_end.value.summary = <<>>

\* ------------------------------------------------ aggregation: claims
IsFailure(result) == "error" \in DOMAIN result

\* get_entity_statistics has just taken in the result of a failed call.
StTookFailure ==
    /\ Len(st_results') = Len(st_results) + 1
    /\ IsFailure(st_results'[Len(st_results')])

\* The counting loop of get_sentiment_distribution has just passed the
\* result of a failed call.
SdTookFailure ==
    /\ sd_pc = "count" /\ sd_pc' = "count"
    /\ sd_idx' = sd_idx + 1
    /\ IsFailure(sd_results[sd_idx])

\* multi_document_qa has just scored the result of a failed call.
MdTookFailure ==
    /\ Len(md_results') = Len(md_results) + 1
    /\ IsFailure(md_results'[Len(md_results')])

\* C11: an input whose model call failed adds 0 to total_entities and
\* nothing to any type in get_entity_statistics, adds 0 to the confidence
\* sum and to no label in get_sentiment_distribution, and is scored 0 and
\* never kept or returned as best answer in multi_document_qa; none of the
\* three ends in an exception because of it.
C11_FailedEntriesContributeZero ==
    /\ [][/\ StTookFailure => (st_total' = st_total /\ st_all' = st_all)
          /\ SdTookFailure => (sd_confidence' = sd_confidence /\ sd_counts' = sd_counts)
          /\ MdTookFailure =>
                /\ ScoreOf(md_results'[Len(md_results')]) = 0
                /\ UNCHANGED <<md_best_answer, md_best_score, md_best_doc_idx>>]_vars
    /\ [](/\ ~IsFailure(md_best_answer)
          /\ md_pc = "done" => ~IsFailure(md_ret)
          /\ sd_pc = "done" => ~sd_end.raised)

\* After a failed call on the first document and an answer on the second,
\* multi_document_qa has returned the answer from the second document.
C11_Witness ==
    /\ md_pc = "done"
    /\ Len(md_results) = 2
    /\ IsFailure(md_results[1])
    /\ md_ret.confidence > 0
    /\ md_ret.source_document_index = 1

\* ------------------------------------- get_sentiment_distribution: claims
\* C12: for an empty list of texts get_sentiment_distribution returns the
\* three labels at 0, total 0 and average_confidence 0; the division by
\* len(texts) is not evaluated.
C12_EmptyDistribution ==
    (sd_pc = "done" /\ sd_n = 0) =>
        sd_end = Returned([distribution |->
                               [zhengmian |-> 0, fumian |-> 0, zhongli |-> 0],
                           total |-> 0,
                           average_confidence |-> 0])

C12_Witness ==
    /\ sd_pc = "done"
    /\ sd_n = 0
    /\ sd_results = <<>>
    /\ ~sd_end.raised

\* The label get_sentiment_distribution reads from a result.
LabelOf(result) == Get(result, "sentiment", "weizhi")

\* The results whose label is `label`.
WithLabel(label) == {k \in 1..Len(sd_results) : LabelOf(sd_results[k]) = label}

\* The results whose label is one of the three fixed labels.
InFixedSet == {k \in 1..Len(sd_results) : LabelOf(sd_results[k]) \in SentimentLabels}

\* C13: a result whose label is outside the three fixed labels increments
\* no count, yet it is counted in total and its confidence is added to the
\* sum; so the counts add up to at most total, with equality exactly when
\* every label is one of the three.
C13_CountsWithinTotal ==
    (sd_pc = "done" /\ sd_n > 0) =>
        LET distribution == sd_end.value.distribution
            counted == SumOver(distribution, SentimentLabels)
            confidences == [k \in 1..Len(sd_results) |->
                               Get(sd_results[k], "confidence", 0)]
        IN  /\ ~sd_end.raised
            /\ DOMAIN distribution = SentimentLabels
            /\ \A label \in SentimentLabels :
                  distribution[label] = Cardinality(WithLabel(label))
            /\ sd_end.value.total = Len(sd_results)
            /\ sd_confidence = SumOver(confidences, DOMAIN confidences)
            /\ sd_end.value.average_confidence =
                  DivideRound2(SumOver(confidences, DOMAIN confidences), sd_n).value
            /\ counted <= sd_end.value.total
            /\ (counted = sd_end.value.total) <=>
                  (InFixedSet = 1..Len(sd_results))

\* Two texts, the first labelled outside the fixed set with a positive
\* confidence, the second inside it: one count, total 2.
C13_Witness ==
    /\ sd_pc = "done"
    /\ sd_n = 2
    /\ LabelOf(sd_results[1]) = "LABEL_2"
    /\ sd_results[1].confidence > 0
    /\ LabelOf(sd_results[2]) = "zhengmian"
    /\ SumOver(sd_end.value.distribution, SentimentLabels) = 1
    /\ sd_end.value.total = 2

\* ---------------------------------------------- multi_document_qa: claims
\* The indices 0 .. n-1 in ascending order.
Ascending(n) == [k \in 1..n |-> k - 1]

\* C14: multi_document_qa calls answer once per document, in ascending
\* index order, whatever the earlier results were: after idx iterations the
\* calls made are those for documents 0 .. idx-1, the loop ends only after
\* the last document, and an empty list gives no call.
C14_OneCallPerDocumentInOrder ==
    /\ md_pc \in {"loop", "done"} =>
          /\ md_calls = Ascending(md_idx)
          /\ Len(md_results) = md_idx
          /\ md_idx <= Len(md_documents)
    /\ md_pc = "done" => md_calls = Ascending(Len(md_documents))

\* Three documents, the first answered with confidence 90: the second and
\* third are still consulted.
C14_Witness ==
    /\ md_pc = "done"
    /\ Len(md_documents) = 3
    /\ md_results[1].confidence = 9000
    /\ md_calls = <<0, 1, 2>>

\* The confidence multi_document_qa reads from the k-th result.
Confidences == [k \in 1..Len(md_results) |-> ScoreOf(md_results[k])]

\* The largest confidence among the results, 0 when there is none.
MaxConfidence ==
    IF md_results = <<>> THEN 0
    ELSE CHOOSE c \in {Confidences[k] : k \in DOMAIN Confidences} :
            \A k \in DOMAIN Confidences : Confidences[k] <= c

\* The 0-based index of the first document whose confidence is the largest.
FirstMaximum ==
    (CHOOSE k \in DOMAIN Confidences :
        /\ Confidences[k] = MaxConfidence
        /\ \A j \in 1..(k - 1) : Confidences[j] < MaxConfidence) - 1

\* C15: when some document scores above 0, multi_document_qa returns the
\* result of the document of smallest index among those of maximum
\* confidence: confidences 40, 90, 90 give the document of index 1.
C15_FirstMaximumWins ==
    (md_pc = "done" /\ MaxConfidence > 0) =>
        /\ md_ret.source_document_index = FirstMaximum
        /\ md_ret.confidence = MaxConfidence
        /\ \A key \in DOMAIN md_results[FirstMaximum + 1] :
              md_ret[key] = md_results[FirstMaximum + 1][key]
        /\ (Confidences = <<4000, 9000, 9000>>) => md_ret.source_document_index = 1

C15_Witness ==
    /\ md_pc = "done"
    /\ Confidences = <<4000, 9000, 9000>>
    /\ md_ret.source_document_index = 1
    /\ md_ret.confidence = 9000

\* Every document was given confidence 0; true of an empty list.
AllZero == \A k \in DOMAIN Confidences : Confidences[k] = 0

\* C16: multi_document_qa returns the not-found record (the question, the
\* fixed message, confidence 0 and no source field) exactly when there is
\* no document or every document's confidence is 0; otherwise the record
\* returned has a confidence above 0 and carries source_document_index.
C16_NotFoundIffNothingScored ==
    md_pc = "done" =>
        /\ (md_ret = [question |-> MdQuestion,
                      answer |-> "wufa zai wendang zhong zhaodao daan",
                      confidence |-> 0]) <=> AllZero
        /\ AllZero => DOMAIN md_ret \cap {"source_document_index", "source_document"} = {}
        /\ ~AllZero => /\ md_ret.confidence > 0
                       /\ "source_document_index" \in DOMAIN md_ret

\* Two documents, a failed call and an answer whose score rounds to
\* confidence 0: the not-found record is returned.
C16_Witness ==
    /\ md_pc = "done"
    /\ Len(md_results) = 2
    /\ IsFailure(md_results[1])
    /\ ~IsFailure(md_results[2])
    /\ md_results[2].confidence = 0
    /\ md_ret.answer = "wufa zai wendang zhong zhaodao daan"
    /\ DOMAIN md_ret = {"question", "answer", "confidence"}

\* The first 200 characters of a document followed by "...".
First200ThenDots(doc) ==
    [k \in 1..Min(200, Len(doc)) |-> doc[k]] \o <<".", ".", ".">>

\* C17: the winning result carries source_document_index, the index of the
\* winning document within the list, and source_document, the first 200
\* characters of that document followed by "...".
C17_WinnerCarriesSource ==
    (md_pc = "done" /\ ~AllZero) =>
        /\ md_ret.source_document_index = FirstMaximum
        /\ md_ret.source_document_index \in 0..(Len(md_documents) - 1)
        /\ md_ret.source_document =
              First200ThenDots(md_documents[md_ret.source_document_index + 1])

\* The third document, of 201 characters, wins over a different first
\* document: the preview is its first 200 characters and the marker.
C17_Witness ==
    /\ md_pc = "done"
    /\ Len(md_documents) = 3
    /\ md_documents[1] = DocShort
    /\ md_documents[3] = DocLong
    /\ md_ret.source_document_index = 2
    /\ Len(md_ret.source_document) = 203
    /\ md_ret.source_document[200] = "x"
    /\ md_ret.source_document[201] = "."

\* ----------------------------------------------- answer, top_k: claims
\* C19: when answer() is called with top_k other than 1 and the pipeline
\* returns a sequence of candidates, 'answers' has one record per candidate
\* in the same order, none dropped and none moved, and 'top_answer' is the
\* first of them, or None when there is no candidate.
C19_AnswersKeepPipelineOrder ==
    (/\ ad_pc = "done"
     /\ ad_adapter = "answer"
     /\ ad_args.top_k # 1
     /\ ~ad_calls[1].raised) =>
        LET candidates == ad_calls[1].value
            answers == ad_end.value.answers
        IN  /\ ~ad_end.raised
            /\ Len(answers) = Len(candidates)
            /\ \A k \in 1..Len(candidates) :
                  /\ answers[k].answer = candidates[k].answer
                  /\ answers[k].start = candidates[k].start
                  /\ answers[k].end = candidates[k].end
                  /\ answers[k].confidence = Round2(candidates[k].score)
            /\ ad_end.value.top_answer =
                  IF candidates = <<>> THEN NoneValue ELSE answers[1]

\* Two candidates received with the weaker one first, at confidence 0:
\* both are kept, the weaker one stays first and is the top answer.
C19_Witness ==
    /\ ad_pc = "done"
    /\ ad_adapter = "answer"
    /\ ad_args.top_k = 2
    /\ ~ad_calls[1].raised
    /\ Len(ad_calls[1].value) = 2
    /\ ad_calls[1].value[1].score = 0
    /\ ad_calls[1].value[2].score = 99987
    /\ Len(ad_end.value.answers) = 2
    /\ ad_end.value.top_answer.confidence = 0
    /\ ad_end.value.answers[2].confidence = 9999

\* ------------------------------------------- summarization mode: claims
\* C20: with the extractive method selected and a non-blank input, a press
\* of the button calls extractive_summary with num_sentences equal to
\* max_length // 20 and renders the result; the script run does not end in
\* an exception.
C20_ExtractiveCallsAndRenders ==
    (/\ ui_pc \in {"done", "failed"}
     /\ ui_input.method = "chouqushi"
     /\ ~Blank(ui_input.text_input)) =>
        /\ ui_exception = NoneValue
        /\ ui_call = [callee |-> "extractive_summary",
                      num_sentences |-> ui_input.max_length \div 20]
        /\ ui_shown \in {<<"summary">>, <<"error">>}

\* --------------------------------------- concurrent invocations: claims
\* The value an invocation returns when it runs with no other invocation
\* in progress and its model calls end as `outs`, in that order.
RECURSIVE RunAlone(_, _, _, _)
RunAlone(fn, frame, input, outs) ==
    LET pending == Pending(fn, frame, input)
    IN  CASE pending = "return" ->
                IF outs = <<>> THEN ReturnValue(fn, frame, input)
                ELSE [unused |-> outs]
          [] pending = "local" -> RunAlone(fn, LocalStep(fn, frame, input), input, outs)
          [] pending = "model" ->
                IF outs = <<>> THEN [missing |-> TRUE]
                ELSE RunAlone(fn, ModelStep(fn, frame, input, Head(outs)),
                              input, Tail(outs))

Alone(fn, input, outs) == RunAlone(fn, NewFrame, input, outs)

\* C18: invocations of highlight_entities, _get_context_snippet,
\* get_entity_statistics, get_sentiment_distribution and multi_document_qa
\* that two threads interleave in any way each return what the same
\* invocation returns when run alone with the same model outputs, also
\* when the thread made other invocations before; an invocation never
\* changes its argument.
C18_InterleavingsReturnAsAlone ==
    /\ [](\A t \in Threads :
             cc_pc[t] = "done" => cc_ret[t] = Alone(cc_fn[t], cc_args[t], cc_outs[t]))
    /\ [][\A t \in Threads :
             (cc_pc[t] # "idle" /\ cc_pc'[t] # "idle") => cc_args'[t] = cc_args[t]]_vars

\* multi_document_qa has returned to thread 1 the answer from the second
\* document while thread 2 is inside its own multi_document_qa on the
\* same two documents, one iteration done, with a different first result.
C18_Witness ==
    /\ cc_pc[1] = "done"
    /\ cc_fn[1] = "multi_document_qa"
    /\ cc_args[1] = <<DocShort, DocLong>>
    /\ cc_ret[1].confidence = 9000
    /\ cc_ret[1].source_document_index = 1
    /\ cc_pc[2] = "run"
    /\ cc_fn[2] = "multi_document_qa"
    /\ cc_args[2] = cc_args[1]
    /\ Len(cc_outs[2]) = 1
    /\ cc_outs[2][1] # cc_outs[1][1]

\* ------------------------------------------------------ summarize: claims
\* C21: summarize() calls the summarization model exactly when the text
\* has at least 50 whitespace-separated words; for a shorter text it makes
\* no model call and returns the text itself as summary with
\* compression_ratio 1.0.
C21_ModelOnlyFromFiftyWords ==
    (ad_pc = "done" /\ ad_adapter = "summarize") =>
        /\ Len(ad_calls) = (IF Len(ad_args.text) >= 50 THEN 1 ELSE 0)
        /\ Len(ad_args.text) < 50 =>
              /\ ~ad_end.raised
              /\ ad_end.value.summary = ad_args.text
              /\ ad_end.value.compression_ratio = 100
              /\ "error" \notin DOMAIN ad_end.value

\* A text of 49 words came back as its own summary without a model call.
C21_Witness ==
    /\ ad_pc = "done"
    /\ ad_adapter = "summarize"
    /\ Len(ad_args.text) = 49
    /\ ad_calls = <<>>
    /\ ad_end.value.summary = ad_args.text
    /\ ad_end.value.compression_ratio = 100

\* ------------------------------------------- snippet around answer: claims
\* The call is within the contract of answer(): the offsets delimit a
\* substring of the context and the window is not negative.
OffsetsWithinContext ==
    /\ 0 <= sn_args.start
    /\ sn_args.start <= sn_args.end
    /\ sn_args.end <= Len(sn_args.context)
    /\ sn_args.window >= 0

\* Does `part` occur in `whole` as a run of consecutive characters?
OccursIn(part, whole) ==
    \E k \in 0..(Len(whole) - Len(part)) :
        \A j \in 1..Len(part) : whole[k + j] = part[j]

\* C22: when 0 <= start <= end <= len(context) and window >= 0, the string
\* _get_context_snippet returns contains context[start:end] and is at most
\* (end - start) + 2 * window + 6 characters long.
C22_SnippetHoldsAnswer ==
    (sn_pc = "done" /\ OffsetsWithinContext) =>
        LET answer == [j \in 1..(sn_args.end - sn_args.start) |->
                          sn_args.context[sn_args.start + j]]
        IN  /\ OccursIn(answer, sn_frame.snippet)
            /\ Len(sn_frame.snippet) <=
                  (sn_args.end - sn_args.start) + 2 * sn_args.window + 6

\* The 30-character context with the answer at 10..15 and window 5: both
\* markers, and the length reaches the bound 5 + 10 + 6.
C22_Witness ==
    /\ sn_pc = "done"
    /\ sn_args = [context |-> CtxExample, start |-> 10, end |-> 15, window |-> 5]
    /\ Len(sn_frame.snippet) = 21
    /\ SubSeq(sn_frame.snippet, 9, 13) = <<"a", "b", "c", "d", "e">>

====
